---- MODULE Spec2Model ----
(***************************************************************************)
(* Model of src/bot.py: the WhatsApp booking bot of Los Ciruelos Padel.    *)
(*                                                                         *)
(* State: the rows of the table "reservas", the rows of the table          *)
(* "sesiones_bot", the wall clock, and the webhook handlers in flight.     *)
(* A handler (manejar_mensaje_wa, manejar_foto_wa) works on a local copy   *)
(* of the session it read with sesion_get and writes it back with          *)
(* sesion_set; two handlers, of the same user or of different users, may   *)
(* be in flight at once, so a handler is cut at its store accesses:        *)
(*   text  turn: sesion_get | the rest (extractor, ejecutar_accion, set)   *)
(*   image turn: sesion_get | verifier + operacion_ya_usada | inserts+set  *)
(*                                                                         *)
(* Python's None is NULL for strings, SinFecha for a timestamp and << >>   *)
(* for reserva_pendiente (the code only tests its truth value and len).    *)
(* A session row that does not exist yet reads as the defaults of          *)
(* sesion_get, so sesiones starts at the defaults.  Time is minutes since  *)
(* today's midnight (Argentina); fecha 0 is today, 1 is tomorrow.          *)
(* The column creada_en / actualizado_en is written and never read: it is  *)
(* left out.  The calls to the session table are taken to succeed; the     *)
(* calls to the table "reservas", to the extractor and to the media        *)
(* download may fail when conFallas holds.                                 *)
(*                                                                         *)
(* webhook_recibir calls the handlers synchronously, so one process takes  *)
(* one message at a time; two handlers are in flight when the service runs *)
(* as several workers or instances, which the code does not exclude.       *)
(*                                                                         *)
(* Four environments bound the model.  "general": two users, two handlers *)
(* in flight, batches of up to MaxLote drafts over two slots.  "lote": one *)
(* user whose messages are handled one after the other, batches of up to   *)
(* MaxLoteLargo drafts over three slots and MaxFotosLargo images.          *)
(* "fallas": two users whose messages are handled one after the other,     *)
(* with calls that may fail (conFallas).  "historial": one user whose      *)
(* MaxTextosLargo texts are handled one after the other, so that the       *)
(* conversation grows past HISTORIAL_MAX turns.                            *)
(***************************************************************************)
EXTENDS Integers, Sequences, FiniteSets, TLC

VARIABLES reservas, sesiones, ahora, hilos, ultimo, textos, fotos, conFallas, escenario

vars == <<reservas, sesiones, ahora, hilos, ultimo, textos, fotos, conFallas, escenario>>

(* ------------------------------ bounds -------------------------------- *)
MaxTextos == 2
MaxFotos == 2
MaxLote == 2
MaxLoteLargo == 3
MaxFotosLargo == 3
MaxTicks == 1
MaxIds == 2
MaxTextosLargo == 6

(* ------------------------- program constants -------------------------- *)
SENA_MONTO == 10000
TIMEOUT_ESPERA_MINUTOS == 60
HISTORIAL_MAX == 20
NumCanchas == 4
CANCHAS == 1..NumCanchas

(* --------------------------- model domains ---------------------------- *)
NULL == "null"
SinFecha == -1
Hoy == 0
InicioReloj == 450
TickMinutos == 90
Usuarios == {"u1", "u2"}
Hilos == 1..2
Operaciones ==
    IF escenario = "lote" THEN {"opA", "opB", "opC"} ELSE {"opA", "opB"}
Borrador(fecha, hora, cancha_id, nombre, telefono) ==
    [fecha |-> fecha, hora |-> hora, cancha_id |-> cancha_id,
     nombre |-> nombre, telefono |-> telefono]

(* the drafts the extractor may ask for: tomorrow's 09:30 slot on court 1  *)
(* and today's 08:00 slot on court 2, for two clients                      *)
Borradores ==
    {Borrador(1, 570, 1, "ana", "t1"),
     Borrador(0, 480, 2, "beto", "t2")}

(* one more slot for the long batches: tomorrow's 09:30 on court 2 *)
BorradoresLote == Borradores \cup {Borrador(1, 570, 2, "ana", "t1")}

BorradoresPedidos == IF escenario = "lote" THEN BorradoresLote ELSE Borradores

LoteMax == IF escenario = "lote" THEN MaxLoteLargo ELSE MaxLote

FotosMax == IF escenario = "lote" THEN MaxFotosLargo ELSE MaxFotos

UsuariosActivos == IF escenario \in {"lote", "historial"} THEN {"u1"} ELSE Usuarios

TextosMax == IF escenario = "historial" THEN MaxTextosLargo ELSE MaxTextos

HilosActivos == IF escenario = "general" THEN Hilos ELSE {1}

(* lists of drafts of length 0..n *)
Lotes(n) == UNION {[1..k -> BorradoresPedidos] : k \in 0..n}

(* ----------------------- table "reservas" ----------------------------- *)
(* the inserted row without the operation reference *)
FilaSinOperacion(r, op) ==
    [fecha |-> r.fecha, hora |-> r.hora, cancha_id |-> r.cancha_id,
     nombre_cliente |-> r.nombre, telefono_cliente |-> r.telefono,
     estado |-> "confirmada", numero_operacion |-> NULL]

Fila(r, op) ==
    [fecha |-> r.fecha, hora |-> r.hora, cancha_id |-> r.cancha_id,
     nombre_cliente |-> r.nombre, telefono_cliente |-> r.telefono,
     estado |-> "confirmada", numero_operacion |-> op]

MismoTurno(a, b) ==
    a.fecha = b.fecha /\ a.hora = b.hora /\ a.cancha_id = b.cancha_id

Activas(rs) == {i \in 1..Len(rs) : rs[i].estado # "cancelada"}

(* the table without the index on (fecha, hora, cancha_id) *)
ViolaUnicidadSinTurno(rs, fila) ==
    \E i \in Activas(rs) :
        fila.numero_operacion # NULL /\ rs[i].numero_operacion = fila.numero_operacion

(* the table without the index on numero_operacion *)
ViolaUnicidadSinOperacion(rs, fila) ==
    \E i \in Activas(rs) : MismoTurno(rs[i], fila)

(* the unique indexes of the table: one live row per (fecha, hora,        *)
(* cancha_id) and one live row per numero_operacion; a NULL reference      *)
(* never collides.  A violation is Postgres error 23505.                   *)
ViolaUnicidad(rs, fila) ==
    \E i \in Activas(rs) :
        \/ MismoTurno(rs[i], fila)
        \/ fila.numero_operacion # NULL /\ rs[i].numero_operacion = fila.numero_operacion

reservas_del_dia(rs, fecha, ok) ==
    IF ok THEN {i \in 1..Len(rs) : rs[i].fecha = fecha} ELSE {}

(* canchas_libres without the test of estado *)
canchas_libres_con_canceladas(rs, fecha, hora, ok) ==
    LET ocupadas == {rs[i].cancha_id : i \in
                       {j \in reservas_del_dia(rs, fecha, ok) : rs[j].hora = hora}}
    IN  {c \in CANCHAS : c \notin ocupadas}

canchas_libres(rs, fecha, hora, ok) ==
    LET ocupadas == {rs[i].cancha_id : i \in
                       {j \in reservas_del_dia(rs, fecha, ok) :
                            rs[j].hora = hora /\ rs[j].estado # "cancelada"}}
    IN  {c \in CANCHAS : c \notin ocupadas}

(* crear_reserva on a table that refuses no insert *)
crear_reserva_sin_indice(rs, r, numero_operacion, ok) ==
    IF ~ok THEN [ret |-> "None", id |-> 0, rs |-> rs]
    ELSE [ret |-> "fila", id |-> Len(rs) + 1,
          rs |-> Append(rs, Fila(r, numero_operacion))]

(* crear_reserva without the test for "23505": every error is None *)
crear_reserva_sin_duplicado(rs, r, numero_operacion, ok) ==
    LET fila == Fila(r, numero_operacion)
    IN  IF ~ok \/ ViolaUnicidad(rs, fila) THEN [ret |-> "None", id |-> 0, rs |-> rs]
        ELSE [ret |-> "fila", id |-> Len(rs) + 1, rs |-> Append(rs, fila)]

(* returns the result of the call and the table after it; ret is "fila"    *)
(* (the created row, id its key), "DUPLICADO" or "None"                    *)
crear_reserva(rs, r, numero_operacion, ok) ==
    LET fila == Fila(r, numero_operacion)
    IN  IF ~ok THEN [ret |-> "None", id |-> 0, rs |-> rs]
        ELSE IF ViolaUnicidad(rs, fila) THEN [ret |-> "DUPLICADO", id |-> 0, rs |-> rs]
        ELSE [ret |-> "fila", id |-> Len(rs) + 1, rs |-> Append(rs, fila)]

reserva_por_id(rs, rid) == IF rid \in 1..Len(rs) THEN rid ELSE 0

(* cancelar_reserva_bd with a delete in place of the update *)
cancelar_reserva_bd_borra(rs, rid, ok) ==
    IF ok /\ rid \in 1..Len(rs)
    THEN [ret |-> TRUE, rs |-> SubSeq(rs, 1, rid - 1) \o SubSeq(rs, rid + 1, Len(rs))]
    ELSE [ret |-> ok, rs |-> rs]

cancelar_reserva_bd(rs, rid, ok) ==
    IF ok /\ rid \in 1..Len(rs)
    THEN [ret |-> TRUE, rs |-> [rs EXCEPT ![rid].estado = "cancelada"]]
    ELSE [ret |-> ok, rs |-> rs]

(* operacion_ya_usada with eq("estado", "cancelada") in place of neq *)
operacion_usada_en_cancelada(rs, numero_operacion, ok) ==
    ok /\ \E i \in (1..Len(rs)) \ Activas(rs) : rs[i].numero_operacion = numero_operacion

operacion_ya_usada(rs, numero_operacion, ok) ==
    ok /\ \E i \in Activas(rs) : rs[i].numero_operacion = numero_operacion

(* ---------------------- table "sesiones_bot" -------------------------- *)
SesionDefaults ==
    [esperando_comprobante |-> FALSE, reserva_pendiente |-> << >>,
     telefono_confirmado |-> NULL, nombre_confirmado |-> NULL,
     esperando_desde |-> SinFecha, historial |-> << >>]

Expirada(s, reloj) ==
    /\ s.esperando_comprobante
    /\ s.esperando_desde # SinFecha
    /\ reloj - s.esperando_desde > TIMEOUT_ESPERA_MINUTOS

(* sesion_get that resets the draft and the date and leaves the flag *)
sesion_get_sin_bandera(s, reloj) ==
    IF Expirada(s, reloj)
    THEN LET r == [s EXCEPT !.reserva_pendiente = << >>, !.esperando_desde = SinFecha]
         IN  [sesion |-> r, fila |-> r, expiro |-> TRUE]
    ELSE [sesion |-> s, fila |-> s, expiro |-> FALSE]

(* sesion_get that resets its copy and does not call sesion_set *)
sesion_get_sin_guardar(s, reloj) ==
    IF Expirada(s, reloj)
    THEN LET r == [s EXCEPT !.esperando_comprobante = FALSE,
                            !.reserva_pendiente = << >>,
                            !.esperando_desde = SinFecha]
         IN  [sesion |-> r, fila |-> s, expiro |-> TRUE]
    ELSE [sesion |-> s, fila |-> s, expiro |-> FALSE]

(* sesion_get on the stored row s: the session it returns, the row the     *)
(* table holds when it returns (the reset is written with sesion_set       *)
(* before the return) and whether it logged the expiry                     *)
sesion_get(s, reloj) ==
    IF Expirada(s, reloj)
    THEN LET r == [s EXCEPT !.esperando_comprobante = FALSE,
                            !.reserva_pendiente = << >>,
                            !.esperando_desde = SinFecha]
         IN  [sesion |-> r, fila |-> r, expiro |-> TRUE]
    ELSE [sesion |-> s, fila |-> s, expiro |-> FALSE]

(* the turns of the conversation; n is the inbound message they belong to *)
Turno(role, clase, n) == [role |-> role, content |-> <<clase, n>>]

DelUsuario(n) == Turno("user", "texto", n)
DelAsistente(n) == Turno("assistant", "texto_respuesta", n)
ResultadoSistema(n) == Turno("user", "RESULTADO_SISTEMA", n)
TextoFinal(n) == Turno("assistant", "texto_final", n)

(* the cap that keeps the oldest turns: historial[:20] *)
UltimosPrimeros(h) ==
    IF Len(h) <= HISTORIAL_MAX THEN h ELSE SubSeq(h, 1, HISTORIAL_MAX)

(* historial[-20:] *)
Ultimos(h) ==
    IF Len(h) <= HISTORIAL_MAX THEN h
    ELSE SubSeq(h, Len(h) - HISTORIAL_MAX + 1, Len(h))

(* ------------------- structured actions (extractor) ------------------- *)
Accion(tipo, b, lote, ids) ==
    [tipo |-> tipo, fecha |-> b.fecha, hora |-> b.hora, cancha_id |-> b.cancha_id,
     nombre |-> b.nombre, telefono |-> b.telefono, reservas |-> lote, reserva_ids |-> ids]

SinDatos == [fecha |-> SinFecha, hora |-> SinFecha, cancha_id |-> 0,
             nombre |-> NULL, telefono |-> NULL]

NoAccion == Accion("ninguna", SinDatos, << >>, << >>)

ListasIds(n, maxid) == UNION {[1..k -> 1..maxid] : k \in 0..n}

(* the actions the extractor may return while the table holds nfilas rows *)
Acciones(nfilas) ==
    {Accion("preparar_reserva", b, << >>, << >>) : b \in BorradoresPedidos}
    \cup {Accion("preparar_multiples_reservas", SinDatos, l, << >>) : l \in Lotes(LoteMax)}
    \cup {Accion("consultar_disponibilidad", [SinDatos EXCEPT !.fecha = 1, !.hora = 570],
                 << >>, << >>)}
    \cup {Accion("consultar_reservas", [SinDatos EXCEPT !.telefono = "t1"], << >>, << >>)}
    \cup {Accion("cancelar_reserva", SinDatos, << >>, <<rid>>) : rid \in 1..(nfilas + 1)}
    \cup {Accion("cancelar_multiples_reservas", SinDatos, << >>, ids) :
                 ids \in ListasIds(MaxIds, nfilas + 1)}
    \cup {Accion("ver_grilla", [SinDatos EXCEPT !.fecha = 1], << >>, << >>)}
    \cup {Accion(tp, SinDatos, << >>, << >>) : tp \in {"derivar_humano", "otra"}}

(* the actions the second reply of the extractor may carry *)
SegundasAcciones ==
    IF escenario = "lote"
    THEN {NoAccion,
          Accion("cancelar_reserva", SinDatos, << >>, <<1>>),
          Accion("preparar_reserva", Borrador(1, 570, 2, "ana", "t1"), << >>, << >>)}
    ELSE {NoAccion}

(* the check of one draft with the court looked up before the clock *)
ValidarBorradorCanchaPrimero(rs, r, reloj, ok) ==
    IF r.cancha_id \notin canchas_libres(rs, r.fecha, r.hora, ok)
    THEN "CANCHA_NO_DISPONIBLE"
    ELSE IF r.fecha = Hoy /\ r.hora <= reloj THEN "TURNO_PASADO"
         ELSE "LISTA"

(* the check of one draft without the look-up of the free courts *)
ValidarBorradorSinCancha(rs, r, reloj, ok) ==
    IF r.fecha = Hoy /\ r.hora <= reloj THEN "TURNO_PASADO" ELSE "LISTA"

(* the check of one draft in ejecutar_accion: past slot, then free court *)
ValidarBorrador(rs, r, reloj, ok) ==
    IF r.fecha = Hoy /\ r.hora <= reloj THEN "TURNO_PASADO"
    ELSE IF r.cancha_id \notin canchas_libres(rs, r.fecha, r.hora, ok)
         THEN "CANCHA_NO_DISPONIBLE"
         ELSE "LISTA"

(* the loop that returns after the check of draft i alone *)
ValidarLoteSoloPrimero(rs, lote, i, reloj, fq) ==
    IF i > Len(lote) THEN [resultado |-> "MULTIPLES_RESERVAS_LISTAS", indice |-> 0]
    ELSE LET v == ValidarBorrador(rs, lote[i], reloj, i \notin fq)
         IN  IF v # "LISTA" THEN [resultado |-> v, indice |-> i]
             ELSE [resultado |-> "MULTIPLES_RESERVAS_LISTAS", indice |-> 0]

(* the loop over the drafts of preparar_multiples_reservas, from draft i;  *)
(* fq: the drafts whose availability query fails                           *)
RECURSIVE ValidarLote(_, _, _, _, _)
ValidarLote(rs, lote, i, reloj, fq) ==
    IF i > Len(lote) THEN [resultado |-> "MULTIPLES_RESERVAS_LISTAS", indice |-> 0]
    ELSE LET v == ValidarBorrador(rs, lote[i], reloj, i \notin fq)
         IN  IF v # "LISTA" THEN [resultado |-> v, indice |-> i]
             ELSE ValidarLote(rs, lote, i + 1, reloj, fq)

(* the cancellation without the test of the stored status *)
CancelarUnaSinEstado(rs, rid, okq, oku) ==
    LET reserva == IF okq THEN reserva_por_id(rs, rid) ELSE 0
    IN  IF reserva = 0 THEN [det |-> "no existe", rs |-> rs]
        ELSE LET c == cancelar_reserva_bd(rs, rid, oku)
             IN  IF c.ret THEN [det |-> "cancelada", rs |-> c.rs]
                 ELSE [det |-> "error al cancelar", rs |-> c.rs]

(* one id of a cancellation: the outcome reported and the table after it *)
CancelarUna(rs, rid, okq, oku) ==
    LET reserva == IF okq THEN reserva_por_id(rs, rid) ELSE 0
    IN  IF reserva = 0 THEN [det |-> "no existe", rs |-> rs]
        ELSE IF rs[reserva].estado = "cancelada" THEN [det |-> "ya estaba cancelada", rs |-> rs]
        ELSE LET c == cancelar_reserva_bd(rs, rid, oku)
             IN  IF c.ret THEN [det |-> "cancelada", rs |-> c.rs]
                 ELSE [det |-> "error al cancelar", rs |-> c.rs]

(* the loop that stops at the first id that is not cancelled *)
RECURSIVE CancelarVariasAborta(_, _, _, _, _)
CancelarVariasAborta(rs, ids, i, fq, fu) ==
    IF i > Len(ids) THEN [det |-> << >>, rs |-> rs]
    ELSE LET c == CancelarUna(rs, ids[i], i \notin fq, i \notin fu)
         IN  IF c.det # "cancelada" THEN [det |-> <<c.det>>, rs |-> c.rs]
             ELSE LET resto == CancelarVariasAborta(c.rs, ids, i + 1, fq, fu)
                  IN  [det |-> <<c.det>> \o resto.det, rs |-> resto.rs]

(* the loop of cancelar_multiples_reservas, from id i *)
RECURSIVE CancelarVarias(_, _, _, _, _)
CancelarVarias(rs, ids, i, fq, fu) ==
    IF i > Len(ids) THEN [det |-> << >>, rs |-> rs]
    ELSE LET c == CancelarUna(rs, ids[i], i \notin fq, i \notin fu)
             resto == CancelarVarias(c.rs, ids, i + 1, fq, fu)
         IN  [det |-> <<c.det>> \o resto.det, rs |-> resto.rs]

Res(resultado, indice, det, rs) ==
    [resultado |-> resultado, indice |-> indice, det |-> det, rs |-> rs]

(* ejecutar_accion: the result string (its kind), the draft that was       *)
(* rejected, the outcome per cancelled id, and the table after the call;   *)
(* fq, fu: the positions whose store query / store update fails            *)
ejecutar_accion(accion, rs, reloj, fq, fu) ==
    CASE accion.tipo = "derivar_humano" -> Res("DERIVAR_HUMANO", 0, << >>, rs)
      [] accion.tipo = "preparar_reserva" ->
            LET v == ValidarBorrador(rs, accion, reloj, 1 \notin fq)
            IN  IF v = "LISTA" THEN Res("RESERVA_LISTA", 0, << >>, rs)
                ELSE Res(v, 1, << >>, rs)
      [] accion.tipo = "preparar_multiples_reservas" ->
            IF accion.reservas = << >> THEN Res("SIN_RESERVAS", 0, << >>, rs)
            ELSE LET v == ValidarLote(rs, accion.reservas, 1, reloj, fq)
                 IN  Res(v.resultado, v.indice, << >>, rs)
      [] accion.tipo = "consultar_disponibilidad" -> Res("DISPONIBILIDAD", 0, << >>, rs)
      [] accion.tipo = "consultar_reservas" -> Res("RESERVAS_TELEFONO", 0, << >>, rs)
      [] accion.tipo = "cancelar_reserva" ->
            LET c == CancelarUna(rs, accion.reserva_ids[1], 1 \notin fq, 1 \notin fu)
            IN  Res("CANCELACION", 0, <<c.det>>, c.rs)
      [] accion.tipo = "cancelar_multiples_reservas" ->
            IF accion.reserva_ids = << >> THEN Res("SIN_IDS", 0, << >>, rs)
            ELSE LET c == CancelarVarias(rs, accion.reserva_ids, 1, fq, fu)
                 IN  Res("CANCELACIONES", 0, c.det, c.rs)
      [] accion.tipo = "ver_grilla" -> Res("GRILLA", 0, << >>, rs)
      [] OTHER -> Res("NO_RECONOCIDA", 0, << >>, rs)

(* --------------------------- handlers --------------------------------- *)
Mensaje(tag, cantidad, monto) == [tag |-> tag, cantidad |-> cantidad, monto |-> monto]

SinMensaje == Mensaje("-", 0, 0)

SinResultado == [resultado |-> NULL, indice |-> 0, det |-> << >>]

ConClave == {"cancelar"}
Textos == {"cancelar", "hola"}

(* any(p in texto_usuario.lower() for p in palabras_cancelar) *)
ContieneClave(texto) == texto \in ConClave

(* the keyword branch that keeps the pending drafts *)
TextoEnEsperaSinBorrar(s, texto) ==
    IF ContieneClave(texto)
    THEN [guardar |-> TRUE,
          sesion |-> [s EXCEPT !.esperando_comprobante = FALSE, !.historial = << >>],
          out |-> Mensaje("proceso_cancelado", 0, 0)]
    ELSE [guardar |-> FALSE, sesion |-> s, out |-> Mensaje("recordatorio", 0, 0)]

(* the reminder branch that stores the text in the history *)
TextoEnEsperaGuardaTexto(s, texto) ==
    IF ContieneClave(texto)
    THEN [guardar |-> TRUE,
          sesion |-> [s EXCEPT !.esperando_comprobante = FALSE,
                               !.reserva_pendiente = << >>,
                               !.historial = << >>],
          out |-> Mensaje("proceso_cancelado", 0, 0)]
    ELSE [guardar |-> TRUE,
          sesion |-> [s EXCEPT !.historial = Ultimos(Append(s.historial, DelUsuario(0)))],
          out |-> Mensaje("recordatorio", 0, 0)]

(* manejar_mensaje_wa after sesion_get, session awaiting the proof:        *)
(* guardar says whether sesion_set is called, sesion is what it writes     *)
TextoEnEspera(s, texto) ==
    IF ContieneClave(texto)
    THEN [guardar |-> TRUE,
          sesion |-> [s EXCEPT !.esperando_comprobante = FALSE,
                               !.reserva_pendiente = << >>,
                               !.historial = << >>],
          out |-> Mensaje("proceso_cancelado", 0, 0)]
    ELSE [guardar |-> FALSE, sesion |-> s, out |-> Mensaje("recordatorio", 0, 0)]

TelefonoEnAccion(accion) ==
    IF accion.telefono # NULL THEN accion.telefono
    ELSE IF accion.reservas # << >> THEN accion.reservas[1].telefono ELSE NULL

NombreEnAccion(accion) ==
    IF accion.nombre # NULL THEN accion.nombre
    ELSE IF accion.reservas # << >> THEN accion.reservas[1].nombre ELSE NULL

(* the capture of phone and name that also marks the session as awaiting *)
ConDatosDeAccionEspera(s, accion) ==
    [s EXCEPT !.telefono_confirmado =
                  IF TelefonoEnAccion(accion) # NULL /\ s.telefono_confirmado = NULL
                  THEN TelefonoEnAccion(accion) ELSE @,
              !.nombre_confirmado =
                  IF NombreEnAccion(accion) # NULL /\ s.nombre_confirmado = NULL
                  THEN NombreEnAccion(accion) ELSE @,
              !.esperando_comprobante = TRUE]

ConDatosDeAccion(s, accion) ==
    [s EXCEPT !.telefono_confirmado =
                  IF TelefonoEnAccion(accion) # NULL /\ s.telefono_confirmado = NULL
                  THEN TelefonoEnAccion(accion) ELSE @,
              !.nombre_confirmado =
                  IF NombreEnAccion(accion) # NULL /\ s.nombre_confirmado = NULL
                  THEN NombreEnAccion(accion) ELSE @]

BorradorDeAccion(accion) ==
    [fecha |-> accion.fecha, hora |-> accion.hora, cancha_id |-> accion.cancha_id,
     nombre |-> accion.nombre, telefono |-> accion.telefono]

(* the second reply with its action executed *)
SegundaRespuestaEjecuta(rs, accion2, reloj) ==
    ejecutar_accion(accion2, rs, reloj, {}, {}).rs

(* texto_final, _ = llamar_mistral(...): the table after the second reply, *)
(* whose action accion2 is discarded                                       *)
SegundaRespuesta(rs, accion2, reloj) == rs

(* manejar_mensaje_wa after sesion_get, session not awaiting a proof.      *)
(* llm: "ok", or which call to the extractor raises ("falla1", "falla2");  *)
(* accion: what the first call returns; the action of the second call is   *)
(* dropped by the code (accion2); llamadas: the calls made to the          *)
(* extractor.  Result: the session written (if guardar), the               *)
(* table after ejecutar_accion, what ejecutar_accion returned, the message *)
TextoConversacion(s, n, rs, reloj, llm, accion, accion2, fq, fu) ==
    LET historial == Append(s.historial, DelUsuario(n))
        ej == ejecutar_accion(accion, rs, reloj, fq, fu)
        s1 == ConDatosDeAccion(s, accion)
        falla == [guardar |-> FALSE, sesion |-> s, rs |-> rs, accion |-> SinResultado,
                  llamadas |-> 1, out |-> Mensaje("problema_tecnico", 0, 0)]
        r == [resultado |-> ej.resultado, indice |-> ej.indice, det |-> ej.det]
    IN  IF llm = "falla1" THEN falla
        ELSE IF accion = NoAccion
        THEN [guardar |-> TRUE,
              sesion |-> [s EXCEPT !.historial = Ultimos(Append(historial, DelAsistente(n)))],
              rs |-> rs, accion |-> SinResultado, llamadas |-> 1,
              out |-> Mensaje("respuesta", 0, 0)]
        ELSE IF ej.resultado = "RESERVA_LISTA"
        THEN [guardar |-> TRUE,
              sesion |-> [s1 EXCEPT !.reserva_pendiente = <<BorradorDeAccion(accion)>>,
                                    !.esperando_comprobante = TRUE,
                                    !.esperando_desde = reloj,
                                    !.historial = << >>],
              rs |-> ej.rs, accion |-> r, llamadas |-> 1,
              out |-> Mensaje("sena", 1, SENA_MONTO)]
        ELSE IF ej.resultado = "MULTIPLES_RESERVAS_LISTAS"
        THEN [guardar |-> TRUE,
              sesion |-> [s1 EXCEPT !.reserva_pendiente = accion.reservas,
                                    !.esperando_comprobante = TRUE,
                                    !.esperando_desde = reloj,
                                    !.historial = << >>],
              rs |-> ej.rs, accion |-> r, llamadas |-> 1,
              out |-> Mensaje("sena_multiple", Len(accion.reservas),
                              Len(accion.reservas) * SENA_MONTO)]
        ELSE IF ej.resultado = "DERIVAR_HUMANO"
        THEN [guardar |-> TRUE,
              sesion |-> [s1 EXCEPT !.historial = Ultimos(Append(historial, DelAsistente(n)))],
              rs |-> ej.rs, accion |-> r, llamadas |-> 1,
              out |-> Mensaje("derivacion", 0, 0)]
        ELSE IF llm = "falla2"
        THEN [falla EXCEPT !.rs = ej.rs, !.accion = r, !.llamadas = 2]
        ELSE [guardar |-> TRUE,
              sesion |-> [s1 EXCEPT !.historial =
                              Ultimos(historial \o <<DelAsistente(n), ResultadoSistema(n),
                                                     TextoFinal(n)>>)],
              rs |-> SegundaRespuesta(ej.rs, accion2, reloj), accion |-> r,
              llamadas |-> 2, out |-> Mensaje("respuesta_resultado", 0, 0)]

(* the verdicts the payment verifier may return *)
Veredicto(valido, ilegible, numero_operacion, tecnico) ==
    [valido |-> valido, ilegible |-> ilegible, numero_operacion |-> numero_operacion,
     tecnico |-> tecnico]

(* the three shapes of the verifier's answer: valid with or without an     *)
(* operation reference, illegible, and not valid with a criteria reason    *)
(* or a technical-error reason                                             *)
Veredictos ==
    {Veredicto(TRUE, FALSE, op, FALSE) : op \in Operaciones \cup {NULL}}
    \cup {Veredicto(FALSE, TRUE, NULL, FALSE)}
    \cup {Veredicto(FALSE, FALSE, NULL, tec) : tec \in BOOLEAN}

SinVeredicto == Veredicto(FALSE, FALSE, NULL, FALSE)

(* the amount the accepted proof is taken to cover (bot.py:770 and 792) *)
monto_este_comprobante(parcial) == SENA_MONTO

(* the verification that goes on to the inserts after a verdict that is    *)
(* not valid for a technical-error reason                                  *)
FotoVerificarTecnicoSigue(s, rs, descarga, vt, vp, okl) ==
    LET cantidad_pendiente == Len(s.reserva_pendiente)
        monto_total_restante == cantidad_pendiente * SENA_MONTO
        reintenta == ~vt.valido /\ ~vt.ilegible /\ cantidad_pendiente > 1
        parcial == reintenta /\ vp.valido
        resultado == IF parcial THEN vp ELSE vt
        fin(tag, n, m) == [sigue |-> FALSE, resultado |-> resultado, parcial |-> parcial,
                           out |-> Mensaje(tag, n, m)]
        sigue == [sigue |-> TRUE, resultado |-> resultado, parcial |-> parcial,
                  out |-> SinMensaje]
    IN  IF ~descarga
        THEN [sigue |-> FALSE, resultado |-> SinVeredicto, parcial |-> FALSE,
              out |-> Mensaje("no_descarga", 0, 0)]
        ELSE IF resultado.ilegible THEN fin("ilegible", 0, 0)
        ELSE IF resultado.valido
        THEN IF resultado.numero_operacion # NULL
                /\ operacion_ya_usada(rs, resultado.numero_operacion, okl)
             THEN fin("ya_utilizado", 0, 0)
             ELSE sigue
        ELSE IF resultado.tecnico THEN sigue
        ELSE fin("no_valido", cantidad_pendiente, monto_total_restante)

(* manejar_foto_wa from the download to the reuse check.  descarga: the    *)
(* image was downloaded; vt, vp: the verdicts for the total and for one    *)
(* deposit; okl: the reuse lookup answers.  sigue: go on to the inserts    *)
FotoVerificar(s, rs, descarga, vt, vp, okl) ==
    LET cantidad_pendiente == Len(s.reserva_pendiente)
        monto_total_restante == cantidad_pendiente * SENA_MONTO
        reintenta == ~vt.valido /\ ~vt.ilegible /\ cantidad_pendiente > 1
        parcial == reintenta /\ vp.valido
        resultado == IF parcial THEN vp ELSE vt
        fin(tag, n, m) == [sigue |-> FALSE, resultado |-> resultado, parcial |-> parcial,
                           out |-> Mensaje(tag, n, m)]
    IN  IF ~descarga
        THEN [sigue |-> FALSE, resultado |-> SinVeredicto, parcial |-> FALSE,
              out |-> Mensaje("no_descarga", 0, 0)]
        ELSE IF resultado.ilegible THEN fin("ilegible", 0, 0)
        ELSE IF resultado.valido
        THEN IF resultado.numero_operacion # NULL
                /\ operacion_ya_usada(rs, resultado.numero_operacion, okl)
             THEN fin("ya_utilizado", 0, 0)
             ELSE [sigue |-> TRUE, resultado |-> resultado, parcial |-> parcial,
                   out |-> SinMensaje]
        ELSE IF resultado.tecnico THEN fin("error_verificacion", 0, 0)
        ELSE fin("no_valido", cantidad_pendiente, monto_total_restante)

(* the loop that creates every pending draft, from draft i; fi: the        *)
(* drafts whose insert fails                                               *)
RECURSIVE CrearTodas(_, _, _, _, _)
CrearTodas(rs, pendientes, i, numero_operacion, fi) ==
    IF i > Len(pendientes) THEN [rets |-> << >>, rs |-> rs]
    ELSE LET c == crear_reserva(rs, pendientes[i], numero_operacion, i \notin fi)
             resto == CrearTodas(c.rs, pendientes, i + 1, numero_operacion, fi)
         IN  [rets |-> <<[ret |-> c.ret, id |-> c.id]>> \o resto.rets, rs |-> resto.rs]

(* the partial payment that drops the last draft in place of the first *)
RestantesSinUltima(reservas_pendientes) ==
    SubSeq(reservas_pendientes, 1, Len(reservas_pendientes) - 1)

(* the partial payment that keeps the draft it has just confirmed *)
RestantesTodas(reservas_pendientes) == reservas_pendientes

(* the drafts still owed after a partial payment *)
Restantes(reservas_pendientes) == Tail(reservas_pendientes)

(* the settlement that resets the session after the duplicate signal *)
FotoConfirmarReiniciaDuplicado(s, resultado, parcial, rs, fi) ==
    LET reservas_pendientes == s.reserva_pendiente
        cantidad_pendiente == Len(reservas_pendientes)
        monto_total_restante == cantidad_pendiente * SENA_MONTO
        numero_operacion == resultado.numero_operacion
    IN  IF monto_este_comprobante(parcial) >= monto_total_restante \/ cantidad_pendiente = 1
        THEN LET c == CrearTodas(rs, reservas_pendientes, 1, numero_operacion, fi)
                 hubo_duplicado == \E i \in 1..Len(c.rets) : c.rets[i].ret = "DUPLICADO"
                 reservas_creadas == {i \in 1..Len(c.rets) : c.rets[i].ret = "fila"}
             IN  IF hubo_duplicado
                 THEN [guardar |-> TRUE,
                       sesion |-> [s EXCEPT !.esperando_comprobante = FALSE,
                                            !.reserva_pendiente = << >>],
                       rs |-> c.rs, rets |-> c.rets,
                       out |-> Mensaje("duplicado", 0, 0)]
                 ELSE IF reservas_creadas # {}
                 THEN [guardar |-> TRUE,
                       sesion |-> [s EXCEPT !.esperando_comprobante = FALSE,
                                            !.reserva_pendiente = << >>,
                                            !.telefono_confirmado = reservas_pendientes[1].telefono,
                                            !.historial = << >>],
                       rs |-> c.rs, rets |-> c.rets,
                       out |-> Mensaje("confirmadas", Cardinality(reservas_creadas), 0)]
                 ELSE [guardar |-> FALSE, sesion |-> s, rs |-> c.rs, rets |-> c.rets,
                       out |-> Mensaje("problema_guardar", 0, 0)]
        ELSE LET r == reservas_pendientes[1]
                 c == crear_reserva(rs, r, numero_operacion, 1 \notin fi)
                 restantes == Restantes(reservas_pendientes)
                 creada == c.ret = "fila"
             IN  [guardar |-> TRUE,
                  sesion |-> [s EXCEPT !.reserva_pendiente = restantes,
                                       !.telefono_confirmado =
                                           IF creada THEN r.telefono ELSE @,
                                       !.historial = << >>],
                  rs |-> c.rs, rets |-> <<[ret |-> c.ret, id |-> c.id]>>,
                  out |-> IF creada
                          THEN Mensaje("parcial", Len(restantes), Len(restantes) * SENA_MONTO)
                          ELSE Mensaje("problema_parcial", 0, 0)]

(* manejar_foto_wa after a valid, unused proof: the inserts and the        *)
(* session written                                                         *)
FotoConfirmar(s, resultado, parcial, rs, fi) ==
    LET reservas_pendientes == s.reserva_pendiente
        cantidad_pendiente == Len(reservas_pendientes)
        monto_total_restante == cantidad_pendiente * SENA_MONTO
        numero_operacion == resultado.numero_operacion
    IN  IF monto_este_comprobante(parcial) >= monto_total_restante \/ cantidad_pendiente = 1
        THEN LET c == CrearTodas(rs, reservas_pendientes, 1, numero_operacion, fi)
                 hubo_duplicado == \E i \in 1..Len(c.rets) : c.rets[i].ret = "DUPLICADO"
                 reservas_creadas == {i \in 1..Len(c.rets) : c.rets[i].ret = "fila"}
             IN  IF hubo_duplicado
                 THEN [guardar |-> FALSE, sesion |-> s, rs |-> c.rs, rets |-> c.rets,
                       out |-> Mensaje("duplicado", 0, 0)]
                 ELSE IF reservas_creadas # {}
                 THEN [guardar |-> TRUE,
                       sesion |-> [s EXCEPT !.esperando_comprobante = FALSE,
                                            !.reserva_pendiente = << >>,
                                            !.telefono_confirmado = reservas_pendientes[1].telefono,
                                            !.historial = << >>],
                       rs |-> c.rs, rets |-> c.rets,
                       out |-> Mensaje("confirmadas", Cardinality(reservas_creadas), 0)]
                 ELSE [guardar |-> FALSE, sesion |-> s, rs |-> c.rs, rets |-> c.rets,
                       out |-> Mensaje("problema_guardar", 0, 0)]
        ELSE LET r == reservas_pendientes[1]
                 c == crear_reserva(rs, r, numero_operacion, 1 \notin fi)
                 restantes == Restantes(reservas_pendientes)
                 creada == c.ret = "fila"
             IN  [guardar |-> TRUE,
                  sesion |-> [s EXCEPT !.reserva_pendiente = restantes,
                                       !.telefono_confirmado =
                                           IF creada THEN r.telefono ELSE @,
                                       !.historial = << >>],
                  rs |-> c.rs, rets |-> <<[ret |-> c.ret, id |-> c.id]>>,
                  out |-> IF creada
                          THEN Mensaje("parcial", Len(restantes), Len(restantes) * SENA_MONTO)
                          ELSE Mensaje("problema_parcial", 0, 0)]

(* ------------------------- the state machine -------------------------- *)
HiloLibre ==
    [pc |-> "libre", wa_id |-> NULL, sesion |-> SesionDefaults, mensaje |-> 0,
     resultado |-> SinVeredicto, parcial |-> FALSE]

(* the last thing a handler did: it read a session (turno "sesion_get",    *)
(* expiro: the read reset an expired wait) or it returned (turno "texto"   *)
(* or "foto"): the session it had read, the text it handled, the verdict   *)
(* it used, the action the extractor returned (pedido), the calls it made  *)
(* to the extractor and the action of the second reply (pedido2), what     *)
(* crear_reserva and ejecutar_accion returned to it and the last message   *)
(* it sent                                                                 *)
SinUltimo ==
    [turno |-> "-", wa_id |-> NULL, sesion |-> SesionDefaults, expiro |-> FALSE,
     texto |-> NULL, resultado |-> SinVeredicto, parcial |-> FALSE, rets |-> << >>,
     pedido |-> NoAccion, pedido2 |-> NoAccion, llamadas |-> 0,
     accion |-> SinResultado, out |-> SinMensaje]

(* the table when the bot starts: empty, or holding the reservation that   *)
(* a customer outside Usuarios confirmed earlier                           *)
ReservaPrevia == Fila(Borrador(1, 570, 1, "carla", "t3"), "opA")

InitBase ==
    /\ reservas \in {<< >>, <<ReservaPrevia>>}
    /\ sesiones = [u \in Usuarios |-> SesionDefaults]
    /\ ahora = InicioReloj
    /\ hilos = [h \in Hilos |-> HiloLibre]
    /\ ultimo = SinUltimo
    /\ textos = 0
    /\ fotos = 0

Init == InitBase /\ conFallas = FALSE /\ escenario = "general"

InitLote == InitBase /\ conFallas = FALSE /\ escenario = "lote"

InitFallas == InitBase /\ conFallas = TRUE /\ escenario = "fallas"

InitHistorial == InitBase /\ conFallas = FALSE /\ escenario = "historial"

(* the sets of positions 1..n whose store call may fail *)
Fallos(n) == IF conFallas THEN SUBSET (1..n) ELSE {{}}

(* whether a call to the store or to the media download answers *)
Respuestas == IF conFallas THEN BOOLEAN ELSE {TRUE}

(* the calls to the extractor: both return, or the first or second raises *)
LlamadasExtractor == IF conFallas THEN {"ok", "falla1", "falla2"} ELSE {"ok"}

Ultimo(turno, hilo, campos) ==
    campos @@ [SinUltimo EXCEPT !.turno = turno, !.wa_id = hilo.wa_id,
                                !.sesion = hilo.sesion, !.resultado = hilo.resultado,
                                !.parcial = hilo.parcial]

Lectura(u, g) ==
    [SinUltimo EXCEPT !.turno = "sesion_get", !.wa_id = u, !.sesion = g.sesion,
                      !.expiro = g.expiro]

Guardar(u, guardar, sesion) ==
    IF guardar THEN [sesiones EXCEPT ![u] = sesion] ELSE sesiones

(* the runtime gives an arriving message to the first free handler *)
HiloDisponible(h) ==
    /\ h \in HilosActivos
    /\ hilos[h].pc = "libre"
    /\ \A g \in Hilos : hilos[g].pc = "libre" => h <= g

(* a text message arrives: manejar_mensaje_wa runs up to sesion_get *)
RecibirTexto(h, u) ==
    /\ HiloDisponible(h)
    /\ u \in UsuariosActivos
    /\ textos < TextosMax
    /\ LET g == sesion_get(sesiones[u], ahora)
       IN  /\ sesiones' = [sesiones EXCEPT ![u] = g.fila]
           /\ hilos' = [hilos EXCEPT ![h] =
                  [HiloLibre EXCEPT !.pc = "texto", !.wa_id = u, !.sesion = g.sesion,
                                    !.mensaje = textos + 1]]
    /\ ultimo' = Lectura(u, sesion_get(sesiones[u], ahora))
    /\ textos' = textos + 1
    /\ UNCHANGED <<reservas, ahora, fotos, conFallas, escenario>>

(* manejar_mensaje_wa, session awaiting the proof: keyword or reminder *)
ResponderEnEspera(h) ==
    /\ hilos[h].pc = "texto"
    /\ hilos[h].sesion.esperando_comprobante
    /\ \E texto \in Textos :
         LET r == TextoEnEspera(hilos[h].sesion, texto)
         IN  /\ sesiones' = Guardar(hilos[h].wa_id, r.guardar, r.sesion)
             /\ ultimo' = Ultimo("texto", hilos[h], [texto |-> texto, out |-> r.out])
    /\ hilos' = [hilos EXCEPT ![h] = HiloLibre]
    /\ UNCHANGED <<reservas, ahora, textos, fotos, conFallas, escenario>>

PosConsulta(accion) ==
    IF accion.tipo = "preparar_reserva" THEN 1
    ELSE IF accion.tipo = "preparar_multiples_reservas" THEN Len(accion.reservas)
    ELSE IF accion.tipo \in {"cancelar_reserva", "cancelar_multiples_reservas"}
         THEN Len(accion.reserva_ids)
    ELSE 0

PosEscritura(accion) ==
    IF accion.tipo \in {"cancelar_reserva", "cancelar_multiples_reservas"}
    THEN Len(accion.reserva_ids) ELSE 0

(* manejar_mensaje_wa, session idle: extractor, ejecutar_accion, sesion_set *)
Conversar(h) ==
    /\ hilos[h].pc = "texto"
    /\ ~hilos[h].sesion.esperando_comprobante
    /\ \E llm \in LlamadasExtractor,
          accion \in Acciones(Len(reservas)) \cup {NoAccion},
          accion2 \in SegundasAcciones :
         \E fq \in Fallos(PosConsulta(accion)), fu \in Fallos(PosEscritura(accion)) :
           LET r == TextoConversacion(hilos[h].sesion, hilos[h].mensaje, reservas, ahora,
                                      llm, accion, accion2, fq, fu)
           IN  /\ sesiones' = Guardar(hilos[h].wa_id, r.guardar, r.sesion)
               /\ reservas' = r.rs
               /\ ultimo' = Ultimo("texto", hilos[h],
                                    [pedido |-> IF llm = "falla1" THEN NoAccion ELSE accion,
                                     pedido2 |-> IF r.llamadas = 2 /\ llm = "ok"
                                                 THEN accion2 ELSE NoAccion,
                                     llamadas |-> r.llamadas,
                                     accion |-> r.accion, out |-> r.out])
    /\ hilos' = [hilos EXCEPT ![h] = HiloLibre]
    /\ UNCHANGED <<ahora, textos, fotos, conFallas, escenario>>

(* an image arrives: manejar_foto_wa runs up to the pending-draft test *)
RecibirFoto(h, u) ==
    /\ HiloDisponible(h)
    /\ u \in UsuariosActivos
    /\ fotos < FotosMax
    /\ LET g == sesion_get(sesiones[u], ahora)
           nuevo == [HiloLibre EXCEPT !.wa_id = u, !.sesion = g.sesion]
       IN  IF ~g.sesion.esperando_comprobante
           THEN /\ sesiones' = [sesiones EXCEPT ![u] = g.fila]
                /\ hilos' = hilos
                /\ ultimo' = Ultimo("foto", nuevo,
                                     [expiro |-> g.expiro, out |-> Mensaje("no_espero", 0, 0)])
           ELSE IF g.sesion.reserva_pendiente = << >>
           THEN /\ sesiones' = [sesiones EXCEPT ![u] =
                       [g.sesion EXCEPT !.esperando_comprobante = FALSE]]
                /\ hilos' = hilos
                /\ ultimo' = Ultimo("foto", nuevo, [out |-> Mensaje("sin_pendiente", 0, 0)])
           ELSE /\ sesiones' = [sesiones EXCEPT ![u] = g.fila]
                /\ hilos' = [hilos EXCEPT ![h] = [nuevo EXCEPT !.pc = "foto"]]
                /\ ultimo' = Lectura(u, g)
    /\ fotos' = fotos + 1
    /\ UNCHANGED <<reservas, ahora, textos, conFallas, escenario>>

(* manejar_foto_wa: download, verifier, reuse check *)
VerificarFoto(h) ==
    /\ hilos[h].pc = "foto"
    /\ \E descarga \in Respuestas, vt \in Veredictos, vp \in Veredictos, okl \in Respuestas :
         LET r == FotoVerificar(hilos[h].sesion, reservas, descarga, vt, vp, okl)
             hilo == [hilos[h] EXCEPT !.pc = "verificada", !.resultado = r.resultado,
                                      !.parcial = r.parcial]
         IN  IF r.sigue
             THEN /\ hilos' = [hilos EXCEPT ![h] = hilo]
                  /\ ultimo' = ultimo
             ELSE /\ hilos' = [hilos EXCEPT ![h] = HiloLibre]
                  /\ ultimo' = Ultimo("foto", hilo, [out |-> r.out])
    /\ UNCHANGED <<reservas, sesiones, ahora, textos, fotos, conFallas, escenario>>

(* manejar_foto_wa: the inserts and sesion_set *)
ConfirmarFoto(h) ==
    /\ hilos[h].pc = "verificada"
    /\ \E fi \in Fallos(Len(hilos[h].sesion.reserva_pendiente)) :
         LET r == FotoConfirmar(hilos[h].sesion, hilos[h].resultado, hilos[h].parcial,
                                reservas, fi)
         IN  /\ sesiones' = Guardar(hilos[h].wa_id, r.guardar, r.sesion)
             /\ reservas' = r.rs
             /\ ultimo' = Ultimo("foto", hilos[h], [rets |-> r.rets, out |-> r.out])
    /\ hilos' = [hilos EXCEPT ![h] = HiloLibre]
    /\ UNCHANGED <<ahora, textos, fotos, conFallas, escenario>>

(* the wall clock advances; a handler returns within one tick *)
Tick ==
    /\ ahora < InicioReloj + MaxTicks * TickMinutos
    /\ \A h \in Hilos : hilos[h].pc = "libre"
    /\ ahora' = ahora + TickMinutos
    /\ UNCHANGED <<reservas, sesiones, hilos, ultimo, textos, fotos, conFallas, escenario>>

Next ==
    \/ \E h \in Hilos, u \in Usuarios : RecibirTexto(h, u)
    \/ \E h \in Hilos : ResponderEnEspera(h)
    \/ \E h \in Hilos : Conversar(h)
    \/ \E h \in Hilos, u \in Usuarios : RecibirFoto(h, u)
    \/ \E h \in Hilos : VerificarFoto(h)
    \/ \E h \in Hilos : ConfirmarFoto(h)
    \/ Tick

Spec == Init /\ [][Next]_vars

SpecLote == InitLote /\ [][Next]_vars

SpecFallas == InitFallas /\ [][Next]_vars

SpecHistorial == InitHistorial /\ [][Next]_vars

(* ============================== claims ================================ *)
(* Steps of the handlers, read off two consecutive states.                *)

(* handler h runs its inserts and returns in this step *)
PasoConfirmar(h) == hilos[h].pc = "verificada" /\ hilos'[h].pc = "libre"

(* handler h runs the verifier and the reuse check in this step *)
PasoVerificar(h) == hilos[h].pc = "foto" /\ hilos'[h].pc # "foto"

(* handler h answers a text in this step *)
PasoTexto(h) == hilos[h].pc = "texto" /\ hilos'[h].pc = "libre"

Pendientes(h) == hilos[h].sesion.reserva_pendiente

TurnoOcupado(rs, r) == \E i \in Activas(rs) : MismoTurno(rs[i], r)

OperacionEnUso(rs, op) == op # NULL /\ \E i \in Activas(rs) : rs[i].numero_operacion = op

TodasCreadas(rets) == \A k \in 1..Len(rets) : rets[k].ret = "fila"

(* C1: at every time at most one reservation that is not cancelled exists *)
(* for a slot (fecha, hora, cancha_id); a cancelled reservation frees its  *)
(* slot and pending drafts hold none.                                      *)
C1_TurnoUnico ==
    \A i \in Activas(reservas), j \in Activas(reservas) :
        i # j => ~MismoTurno(reservas[i], reservas[j])

(* a slot that was cancelled and booked again: two rows of one slot, one   *)
(* of them live                                                            *)
C1_Testigo ==
    \E i \in 1..Len(reservas), j \in Activas(reservas) :
        /\ reservas[i].estado = "cancelada"
        /\ MismoTurno(reservas[i], reservas[j])

(* C2: an image turn with N >= 1 pending drafts whose proof is valid for   *)
(* the whole remaining amount, with an unused reference and every insert   *)
(* succeeding, creates one reservation per draft and leaves the session    *)
(* idle with no pending draft.                                             *)
C2_PagoTotal ==
    [][\A h \in Hilos :
         /\ PasoConfirmar(h)
         /\ ~hilos[h].parcial
         /\ TodasCreadas(ultimo'.rets)
         => LET n == Len(Pendientes(h))
                u == hilos[h].wa_id
            IN  /\ Len(reservas') = Len(reservas) + n
                /\ \A k \in 1..n :
                     reservas'[Len(reservas) + k] =
                         Fila(Pendientes(h)[k], hilos[h].resultado.numero_operacion)
                /\ ~sesiones'[u].esperando_comprobante
                /\ sesiones'[u].reserva_pendiente = << >>]_vars

(* C3: with N >= 2 pending drafts, a proof rejected for the whole amount   *)
(* and accepted for one deposit, with an unused reference and a successful *)
(* insert, creates exactly the first draft's reservation, removes that     *)
(* draft, keeps the session awaiting, and reports (N-1) deposits owed.     *)
C3_PagoParcial ==
    [][\A h \in Hilos :
         /\ PasoConfirmar(h)
         /\ hilos[h].parcial
         /\ Len(Pendientes(h)) >= 2
         /\ ultimo'.rets[1].ret = "fila"
         => LET n == Len(Pendientes(h))
                u == hilos[h].wa_id
            IN  /\ reservas' = Append(reservas,
                       Fila(Pendientes(h)[1], hilos[h].resultado.numero_operacion))
                /\ sesiones'[u].esperando_comprobante
                /\ sesiones'[u].reserva_pendiente = Tail(Pendientes(h))
                /\ ultimo'.out = Mensaje("parcial", n - 1, (n - 1) * SENA_MONTO)]_vars

(* a partial payment on a batch of three drafts *)
C3_Testigo ==
    /\ ultimo.parcial
    /\ ultimo.out.tag = "parcial"
    /\ Len(ultimo.sesion.reserva_pendiente) = MaxLoteLargo
    /\ Len(sesiones[ultimo.wa_id].reserva_pendiente) = MaxLoteLargo - 1

(* the verdict handler h ends its verification step with *)
VeredictoUsado(h) ==
    IF hilos'[h].pc = "verificada" THEN hilos'[h].resultado ELSE ultimo'.resultado

(* C4: when an image turn yields a valid verdict whose operation reference *)
(* a reservation that is not cancelled already carries (at the time of the *)
(* reuse lookup, which answers), the turn ends with the already-used       *)
(* notice before any insert is attempted; no reservation is created and    *)
(* the session is unchanged.                                               *)
C4_ComprobanteReusado ==
    [][\A h \in Hilos :
         /\ PasoVerificar(h)
         /\ VeredictoUsado(h).valido
         /\ OperacionEnUso(reservas, VeredictoUsado(h).numero_operacion)
         => /\ hilos'[h].pc = "libre"
            /\ ultimo'.out.tag = "ya_utilizado"
            /\ reservas' = reservas
            /\ sesiones' = sesiones]_vars

(* a valid proof was turned down because its reference is in use *)
C4_Testigo ==
    /\ ultimo.out.tag = "ya_utilizado"
    /\ ultimo.resultado.valido
    /\ OperacionEnUso(reservas, ultimo.resultado.numero_operacion)

(* C5: under every interleaving of image turns, no two reservations that   *)
(* are not cancelled carry the same operation reference (a reference that  *)
(* is absent is shared freely).                                            *)
C5_OperacionUnica ==
    \A i \in Activas(reservas), j \in Activas(reservas) :
        i # j /\ reservas[i].numero_operacion # NULL
        => reservas[i].numero_operacion # reservas[j].numero_operacion

(* an insert for a free slot was refused because another turn had used the *)
(* reference after this turn's reuse check                                 *)
C5_Testigo ==
    /\ ultimo.turno = "foto"
    /\ ultimo.rets # << >>
    /\ ultimo.rets[1].ret = "DUPLICADO"
    /\ ~TurnoOcupado(reservas, ultimo.sesion.reserva_pendiente[1])
    /\ OperacionEnUso(reservas, ultimo.resultado.numero_operacion)

(* C6: an attempt to create a reservation for a slot that a reservation    *)
(* not cancelled holds returns DUPLICADO and adds no row; an attempt for a *)
(* free slot with an unused reference creates the row.  So of two          *)
(* concurrent attempts for one free slot exactly one creates it and the    *)
(* other gets DUPLICADO, which is not the generic failure None.            *)
C6_CarreraPorTurno ==
    [][\A h \in Hilos :
         PasoConfirmar(h)
         => LET r == Pendientes(h)[1]
                op == hilos[h].resultado.numero_operacion
            IN  IF TurnoOcupado(reservas, r)
                THEN ultimo'.rets[1].ret = "DUPLICADO" /\ reservas' = reservas
                ELSE ~OperacionEnUso(reservas, op)
                     => /\ ultimo'.rets[1].ret = "fila"
                        /\ reservas' = Append(reservas, Fila(r, op))]_vars

(* two attempts for one slot were in flight; the first created the row and *)
(* the second is about to insert                                           *)
C6_Testigo ==
    \E g \in Hilos :
        /\ hilos[g].pc = "verificada"
        /\ ultimo.turno = "foto"
        /\ ultimo.rets # << >>
        /\ ultimo.rets[1].ret = "fila"
        /\ MismoTurno(ultimo.sesion.reserva_pendiente[1], Pendientes(g)[1])
        /\ TurnoOcupado(reservas, Pendientes(g)[1])

(* C7: a reservation is created only by an image turn received while the  *)
(* session awaited the proof, for a pending draft of that session, after a *)
(* valid verdict; it is created confirmed; a reservation is never deleted  *)
(* and the only change to it is its status going to cancelled.             *)
C7_CicloDeVida ==
    [][/\ Len(reservas') >= Len(reservas)
       /\ \A i \in 1..Len(reservas) :
            \/ reservas'[i] = reservas[i]
            \/ reservas'[i] = [reservas[i] EXCEPT !.estado = "cancelada"]
       /\ Len(reservas') > Len(reservas)
          => \E h \in Hilos :
               /\ PasoConfirmar(h)
               /\ hilos[h].sesion.esperando_comprobante
               /\ hilos[h].resultado.valido
               /\ \A i \in (Len(reservas) + 1)..Len(reservas') :
                    /\ reservas'[i].estado = "confirmada"
                    /\ \E k \in 1..Len(Pendientes(h)) :
                         reservas'[i] =
                             Fila(Pendientes(h)[k], hilos[h].resultado.numero_operacion)]_vars

(* a reservation the bot created from a draft and cancelled later *)
C7_Testigo ==
    \E i \in 1..Len(reservas) :
        /\ reservas[i].estado = "cancelada"
        /\ reservas[i] # [ReservaPrevia EXCEPT !.estado = "cancelada"]

(* C8: a stored session that awaits the proof has at least one pending     *)
(* draft and the time since which it waits.                                *)
C8_EsperaConBorrador ==
    \A u \in Usuarios :
        sesiones[u].esperando_comprobante
        => /\ sesiones[u].reserva_pendiente # << >>
           /\ sesiones[u].esperando_desde # SinFecha

(* a session still awaiting after a partial payment took one draft away *)
C8_Testigo ==
    /\ ultimo.out.tag = "parcial"
    /\ sesiones[ultimo.wa_id].esperando_comprobante
    /\ Len(sesiones[ultimo.wa_id].reserva_pendiente) < Len(ultimo.sesion.reserva_pendiente)

(* C9: the first read of a session that began to await its proof more than *)
(* TIMEOUT_ESPERA_MINUTOS ago returns it idle, with no pending draft and   *)
(* no waiting time, and has stored that reset when it returns; the text or *)
(* image turn that made the read sees an idle session.                     *)
C9_Expiracion ==
    [][\A u \in Usuarios :
         /\ textos' # textos \/ fotos' # fotos
         /\ ultimo'.wa_id = u
         /\ sesiones[u].esperando_comprobante
         /\ sesiones[u].esperando_desde # SinFecha
         /\ ahora - sesiones[u].esperando_desde > TIMEOUT_ESPERA_MINUTOS
         => /\ ~ultimo'.sesion.esperando_comprobante
            /\ ultimo'.sesion.reserva_pendiente = << >>
            /\ ultimo'.sesion.esperando_desde = SinFecha
            /\ sesiones'[u] = ultimo'.sesion
            /\ fotos' # fotos => ultimo'.out.tag = "no_espero"
            /\ textos' # textos
               => \E h \in Hilos :
                    /\ hilos[h].pc = "libre"
                    /\ hilos'[h].pc = "texto"
                    /\ hilos'[h].wa_id = u
                    /\ ~hilos'[h].sesion.esperando_comprobante]_vars

(* an image arrived after the wait had expired and was told that no proof  *)
(* is awaited                                                              *)
C9_Testigo ==
    /\ ultimo.turno = "foto"
    /\ ultimo.expiro
    /\ ultimo.out.tag = "no_espero"
    /\ ~sesiones[ultimo.wa_id].esperando_comprobante
    /\ ahora > InicioReloj + TIMEOUT_ESPERA_MINUTOS

(* C10: a text with a cancellation keyword, handled for a session awaiting *)
(* the proof, leaves the session idle with pending drafts and history      *)
(* cleared, creates or cancels no reservation, and is answered with the    *)
(* cancellation notice.                                                    *)
C10_CancelarEspera ==
    [][\A h \in Hilos :
         /\ PasoTexto(h)
         /\ hilos[h].sesion.esperando_comprobante
         /\ ContieneClave(ultimo'.texto)
         => LET u == hilos[h].wa_id
            IN  /\ ~sesiones'[u].esperando_comprobante
                /\ sesiones'[u].reserva_pendiente = << >>
                /\ sesiones'[u].historial = << >>
                /\ reservas' = reservas
                /\ ultimo'.out.tag = "proceso_cancelado"]_vars

(* the wait for the proof of two drafts was cancelled with the keyword *)
C10_Testigo ==
    /\ ultimo.turno = "texto"
    /\ ultimo.texto = "cancelar"
    /\ ultimo.out.tag = "proceso_cancelado"
    /\ Len(ultimo.sesion.reserva_pendiente) = MaxLote
    /\ sesiones[ultimo.wa_id].reserva_pendiente = << >>

(* C11: a text handled for a session awaiting the proof never reaches the  *)
(* extractor and executes no action; without a cancellation keyword the    *)
(* stored sessions and the reservations are left as they were and only the *)
(* reminder is sent.                                                       *)
C11_SoloRecordatorio ==
    [][\A h \in Hilos :
         /\ PasoTexto(h)
         /\ hilos[h].sesion.esperando_comprobante
         => /\ ultimo'.pedido = NoAccion
            /\ ultimo'.accion = SinResultado
            /\ ultimo'.out.tag \in {"proceso_cancelado", "recordatorio"}
            /\ reservas' = reservas
            /\ ~ContieneClave(ultimo'.texto)
               => /\ sesiones' = sesiones
                  /\ ultimo'.out.tag = "recordatorio"]_vars

(* a text without keyword was answered with the reminder while the session *)
(* awaits the proof                                                        *)
C11_Testigo ==
    /\ ultimo.turno = "texto"
    /\ ultimo.texto = "hola"
    /\ ultimo.out.tag = "recordatorio"
    /\ ultimo.sesion.esperando_comprobante
    /\ sesiones[ultimo.wa_id] = ultimo.sesion

(* the drafts of the prepare action the extractor returned *)
BorradoresDe(accion) ==
    IF accion.tipo = "preparar_reserva" THEN <<BorradorDeAccion(accion)>>
    ELSE IF accion.tipo = "preparar_multiples_reservas" THEN accion.reservas
    ELSE << >>

(* the draft's slot is today and strictly before the current time *)
YaPaso(r) == r.fecha = Hoy /\ r.hora < ahora

(* the draft passes both checks of a prepare action *)
Aceptable(r) == ~YaPaso(r) /\ ~TurnoOcupado(reservas, r)

(* C12 as stated: a prepare action, single or batch, with a draft of today *)
(* whose time is strictly before the current time is rejected with the     *)
(* slot-already-past outcome whether or not the court is free, and the     *)
(* session does not start to await a proof.                                *)
C12_TurnoPasadoSiempre ==
    [][\A h \in Hilos :
         /\ PasoTexto(h)
         /\ \E k \in 1..Len(BorradoresDe(ultimo'.pedido)) :
                YaPaso(BorradoresDe(ultimo'.pedido)[k])
         => /\ ultimo'.accion.resultado = "TURNO_PASADO"
            /\ ~sesiones'[hilos[h].wa_id].esperando_comprobante]_vars

(* C12 amended: a prepare action with a past draft never starts the wait   *)
(* for a proof; its outcome is slot-already-past, whether or not that      *)
(* court is free, when the past draft is the first draft that fails a      *)
(* check (always so for a single prepare), and otherwise the rejection of  *)
(* the earlier draft whose court is taken.                                 *)
C12_TurnoPasado ==
    [][\A h \in Hilos :
         PasoTexto(h)
         => LET ds == BorradoresDe(ultimo'.pedido)
                malos == {k \in 1..Len(ds) : ~Aceptable(ds[k])}
            IN  \A k \in 1..Len(ds) :
                  YaPaso(ds[k])
                  => /\ ~sesiones'[hilos[h].wa_id].esperando_comprobante
                     /\ ultimo'.accion.resultado \in {"TURNO_PASADO", "CANCHA_NO_DISPONIBLE"}
                     /\ (\A j \in malos : k <= j)
                        => /\ ultimo'.accion.resultado = "TURNO_PASADO"
                           /\ ultimo'.accion.indice = k
                     /\ (\E j \in malos : j < k /\ ~YaPaso(ds[j]) /\ \A i \in malos : j <= i)
                        => ultimo'.accion.resultado = "CANCHA_NO_DISPONIBLE"]_vars

(* a single prepare for a past slot whose court is taken was rejected as   *)
(* past                                                                    *)
C12_Testigo ==
    /\ ultimo.turno = "texto"
    /\ ultimo.pedido.tipo = "preparar_reserva"
    /\ BorradorDeAccion(ultimo.pedido).fecha = Hoy
    /\ BorradorDeAccion(ultimo.pedido).hora < ahora
    /\ TurnoOcupado(reservas, BorradorDeAccion(ultimo.pedido))
    /\ ultimo.accion.resultado = "TURNO_PASADO"

(* C13: a single prepare action handled for an idle session makes the      *)
(* session await the proof exactly when the slot is not past and the court *)
(* is free at that slot; then the pending list is that one draft, the wait *)
(* starts at the current time and the history is cleared; otherwise the    *)
(* session stays idle and holds no pending draft.                          *)
C13_PrepararUna ==
    [][\A h \in Hilos :
         /\ PasoTexto(h)
         /\ ~hilos[h].sesion.esperando_comprobante
         /\ ultimo'.pedido.tipo = "preparar_reserva"
         => LET r == BorradorDeAccion(ultimo'.pedido)
                s == sesiones'[hilos[h].wa_id]
            IN  IF Aceptable(r)
                THEN /\ s.esperando_comprobante
                     /\ s.reserva_pendiente = <<r>>
                     /\ s.esperando_desde = ahora
                     /\ s.historial = << >>
                     /\ ultimo'.out = Mensaje("sena", 1, SENA_MONTO)
                ELSE /\ ~s.esperando_comprobante
                     /\ s.reserva_pendiente = << >>]_vars

(* after the clock moved, a single prepare for a free slot of tomorrow     *)
(* started the wait at the current time                                    *)
C13_Testigo ==
    /\ ultimo.turno = "texto"
    /\ ultimo.pedido.tipo = "preparar_reserva"
    /\ ahora > InicioReloj
    /\ sesiones[ultimo.wa_id].esperando_comprobante
    /\ sesiones[ultimo.wa_id].reserva_pendiente = <<BorradorDeAccion(ultimo.pedido)>>
    /\ sesiones[ultimo.wa_id].esperando_desde = ahora

(* C14: a batch prepare handled for an idle session is all or nothing: the *)
(* drafts are checked in list order and the first one that is past or      *)
(* whose court is taken rejects the batch with that draft's outcome,       *)
(* leaving the session idle without pending drafts; when every draft       *)
(* passes, the session awaits the proof with the whole list in its order.  *)
C14_PrepararLote ==
    [][\A h \in Hilos :
         /\ PasoTexto(h)
         /\ ~hilos[h].sesion.esperando_comprobante
         /\ ultimo'.pedido.tipo = "preparar_multiples_reservas"
         => LET ds == ultimo'.pedido.reservas
                malos == {k \in 1..Len(ds) : ~Aceptable(ds[k])}
                s == sesiones'[hilos[h].wa_id]
            IN  /\ reservas' = reservas
                /\ IF ds # << >> /\ malos = {}
                   THEN /\ s.esperando_comprobante
                        /\ s.reserva_pendiente = ds
                        /\ s.esperando_desde = ahora
                        /\ ultimo'.out =
                               Mensaje("sena_multiple", Len(ds), Len(ds) * SENA_MONTO)
                   ELSE /\ ~s.esperando_comprobante
                        /\ s.reserva_pendiente = << >>
                        /\ \A k \in malos :
                             (\A j \in malos : k <= j)
                             => /\ ultimo'.accion.indice = k
                                /\ ultimo'.accion.resultado =
                                       IF YaPaso(ds[k]) THEN "TURNO_PASADO"
                                       ELSE "CANCHA_NO_DISPONIBLE"]_vars

(* a batch of three drafts was rejected for its last draft, the two before *)
(* it being acceptable                                                     *)
C14_Testigo ==
    /\ ultimo.turno = "texto"
    /\ ultimo.pedido.tipo = "preparar_multiples_reservas"
    /\ Len(ultimo.pedido.reservas) = MaxLoteLargo
    /\ ultimo.accion.indice = MaxLoteLargo
    /\ ~sesiones[ultimo.wa_id].esperando_comprobante
    /\ sesiones[ultimo.wa_id].reserva_pendiente = << >>

(* the table after this step is the table before it plus one confirmed row *)
(* for draft r carrying reference op                                       *)
UnaFilaMas(r, op) ==
    /\ Len(reservas') = Len(reservas) + 1
    /\ SubSeq(reservas', 1, Len(reservas)) = reservas
    /\ LET f == reservas'[Len(reservas')]
       IN  /\ f.estado = "confirmada"
           /\ f.fecha = r.fecha /\ f.hora = r.hora /\ f.cancha_id = r.cancha_id
           /\ f.numero_operacion = op

(* C15 as stated: with exactly one pending draft, an image turn whose      *)
(* proof is valid with an operation reference that no reservation not      *)
(* cancelled carries creates exactly one confirmed row with the draft's    *)
(* date, time and court and that reference, and the session ends idle.     *)
C15_UnaReservaSiempre ==
    [][\A h \in Hilos :
         /\ PasoConfirmar(h)
         /\ Len(Pendientes(h)) = 1
         /\ hilos[h].resultado.numero_operacion # NULL
         /\ ~OperacionEnUso(reservas, hilos[h].resultado.numero_operacion)
         => /\ UnaFilaMas(Pendientes(h)[1], hilos[h].resultado.numero_operacion)
            /\ ~sesiones'[hilos[h].wa_id].esperando_comprobante
            /\ sesiones'[hilos[h].wa_id].reserva_pendiente = << >>]_vars

(* C15: the same, when moreover no reservation that is not cancelled holds *)
(* the draft's slot at the time of the insert; when one does, no row is    *)
(* created and the session keeps awaiting the proof with its draft.        *)
C15_UnaReserva ==
    [][\A h \in Hilos :
         /\ PasoConfirmar(h)
         /\ Len(Pendientes(h)) = 1
         /\ hilos[h].resultado.numero_operacion # NULL
         /\ ~OperacionEnUso(reservas, hilos[h].resultado.numero_operacion)
         => LET u == hilos[h].wa_id
            IN  IF TurnoOcupado(reservas, Pendientes(h)[1])
                THEN /\ reservas' = reservas
                     /\ sesiones'[u] = sesiones[u]
                ELSE /\ UnaFilaMas(Pendientes(h)[1], hilos[h].resultado.numero_operacion)
                     /\ ~sesiones'[u].esperando_comprobante
                     /\ sesiones'[u].reserva_pendiente = << >>]_vars

(* an image turn with one pending draft and a fresh reference created the  *)
(* last row of the table and left the session idle                         *)
C15_Testigo ==
    /\ ultimo.turno = "foto"
    /\ Len(ultimo.sesion.reserva_pendiente) = 1
    /\ ultimo.rets # << >>
    /\ ultimo.rets[1].ret = "fila"
    /\ ultimo.resultado.numero_operacion # NULL
    /\ reservas # << >>
    /\ reservas[Len(reservas)].numero_operacion = ultimo.resultado.numero_operacion
    /\ MismoTurno(reservas[Len(reservas)], ultimo.sesion.reserva_pendiente[1])
    /\ ~sesiones[ultimo.wa_id].esperando_comprobante

(* cancelling row rid of the table a second time: the outcome does not     *)
(* depend on whether a store update would succeed (none is attempted), and *)
(* the table is the one the first cancellation left                        *)
DosVecesComoUna(rs, rid) ==
    LET una == CancelarUna(rs, rid, TRUE, TRUE).rs
    IN  /\ una[rid].estado = "cancelada"
        /\ \A oku \in BOOLEAN :
             CancelarUna(una, rid, TRUE, oku) = [det |-> "ya estaba cancelada", rs |-> una]
        /\ CancelarVarias(rs, <<rid, rid>>, 1, {}, {}).rs = una

(* C16: a cancel action on a reservation that is already cancelled reports *)
(* "already cancelled", attempts no store update and leaves the table as   *)
(* it was; cancelling a reservation twice leaves the table that cancelling *)
(* it once leaves.                                                         *)
C16_CancelarIdempotente ==
    /\ [](\A rid \in 1..Len(reservas) : DosVecesComoUna(reservas, rid))
    /\ [][\A h \in Hilos :
            /\ PasoTexto(h)
            /\ ~hilos[h].sesion.esperando_comprobante
            /\ ultimo'.pedido.tipo = "cancelar_reserva"
            /\ ultimo'.pedido.reserva_ids[1] \in 1..Len(reservas)
            /\ reservas[ultimo'.pedido.reserva_ids[1]].estado = "cancelada"
            => /\ ultimo'.accion.det = <<"ya estaba cancelada">>
               /\ reservas' = reservas]_vars

(* a second cancel action on a reservation answered "already cancelled" *)
C16_Testigo ==
    /\ ultimo.turno = "texto"
    /\ ultimo.pedido.tipo = "cancelar_reserva"
    /\ ultimo.accion.det = <<"ya estaba cancelada">>
    /\ reservas[ultimo.pedido.reserva_ids[1]].estado = "cancelada"

(* the dates and times asked about: those of the drafts, so that each slot *)
(* has rows at its own date and time, at another time and at another date  *)
FechasConsultadas == {r.fecha : r \in BorradoresLote}
HorasConsultadas == {r.hora : r \in BorradoresLote}

(* the courts that a reservation not cancelled holds at (fecha, hora) *)
CanchasTomadas(rs, fecha, hora) ==
    {c \in CANCHAS : \E i \in 1..Len(rs) :
        /\ rs[i].fecha = fecha /\ rs[i].hora = hora /\ rs[i].cancha_id = c
        /\ rs[i].estado # "cancelada"}

(* C17: for every date, time and table, canchas_libres (its query          *)
(* answering) is the configured courts {1,2,3,4} without the courts that a *)
(* reservation not cancelled holds at that date and time: no occupied      *)
(* court is in it, it is the whole set when the slot has no reservation,   *)
(* and rows of other dates or times and cancelled rows remove no court.    *)
C17_CanchasLibres ==
    /\ CANCHAS = {1, 2, 3, 4}
    /\ \A fecha \in FechasConsultadas, hora \in HorasConsultadas :
         LET libres == canchas_libres(reservas, fecha, hora, TRUE)
         IN  /\ libres = CANCHAS \ CanchasTomadas(reservas, fecha, hora)
             /\ (\A i \in 1..Len(reservas) :
                    reservas[i].fecha # fecha \/ reservas[i].hora # hora
                    \/ reservas[i].estado = "cancelada")
                => libres = CANCHAS

(* a date and time with a cancelled row on one court and a live row on     *)
(* another, while a row of another date exists: the cancelled court is     *)
(* free and the live one is not                                            *)
C17_Testigo ==
    \E i \in 1..Len(reservas), j \in Activas(reservas), k \in 1..Len(reservas) :
        /\ reservas[i].estado = "cancelada"
        /\ reservas[j].fecha = reservas[i].fecha /\ reservas[j].hora = reservas[i].hora
        /\ reservas[j].cancha_id # reservas[i].cancha_id
        /\ reservas[k].fecha # reservas[i].fecha
        /\ canchas_libres(reservas, reservas[i].fecha, reservas[i].hora, TRUE)
               = CANCHAS \ {reservas[j].cancha_id}

(* C18: an image turn of a session awaiting the proof whose final verdict  *)
(* is not valid (illegible, rejected on the criteria, or a technical-error *)
(* reason) ends at the verdict: it writes no session, creates no           *)
(* reservation, and the stored session still awaits the proof with the     *)
(* same pending drafts in the same order.                                  *)
C18_VeredictoNoValido ==
    [][\A h \in Hilos :
         /\ PasoVerificar(h)
         /\ ~VeredictoUsado(h).valido
         /\ ~(hilos'[h].pc = "libre" /\ ultimo'.out.tag = "no_descarga")
         => LET u == hilos[h].wa_id
                v == VeredictoUsado(h)
            IN  /\ hilos'[h].pc = "libre"
                /\ sesiones' = sesiones
                /\ reservas' = reservas
                /\ sesiones'[u].esperando_comprobante
                /\ sesiones'[u].reserva_pendiente = Pendientes(h)
                /\ ultimo'.out.tag = IF v.ilegible THEN "ilegible"
                                     ELSE IF v.tecnico THEN "error_verificacion"
                                     ELSE "no_valido"]_vars

(* a proof for a batch of three drafts was rejected on the criteria, for   *)
(* the total and for one deposit, and the three drafts are still pending   *)
C18_Testigo ==
    /\ ultimo.turno = "foto"
    /\ ultimo.out.tag = "no_valido"
    /\ ~ultimo.resultado.valido /\ ~ultimo.resultado.tecnico
    /\ Len(ultimo.sesion.reserva_pendiente) = MaxLoteLargo
    /\ sesiones[ultimo.wa_id].esperando_comprobante
    /\ sesiones[ultimo.wa_id].reserva_pendiente = ultimo.sesion.reserva_pendiente

(* C19: in an image turn with a valid, unused proof, when the creation of  *)
(* a reservation returns the generic failure (in the full-settlement path  *)
(* or in the partial-payment path), the stored session keeps awaiting the  *)
(* proof with the same pending drafts: no draft is dropped without a       *)
(* reservation having been created for it.                                 *)
C19_FallaReintentable ==
    [][\A h \in Hilos :
         /\ PasoConfirmar(h)
         /\ \E k \in 1..Len(ultimo'.rets) : ultimo'.rets[k].ret = "None"
         => /\ sesiones'[hilos[h].wa_id].esperando_comprobante
            /\ sesiones'[hilos[h].wa_id].reserva_pendiente = Pendientes(h)]_vars

(* C20: once telefono_confirmado (respectively nombre_confirmado) of a     *)
(* stored session holds a value, no later text turn, image turn,           *)
(* cancellation or expiry changes it to another value or clears it.        *)
C20_DatosConfirmadosFijos ==
    [][\A u \in Usuarios :
         /\ sesiones[u].telefono_confirmado # NULL
            => sesiones'[u].telefono_confirmado = sesiones[u].telefono_confirmado
         /\ sesiones[u].nombre_confirmado # NULL
            => sesiones'[u].nombre_confirmado = sesiones[u].nombre_confirmado]_vars

(* the number of turns a text turn adds to the conversation it stores: the *)
(* user's text and the reply, and for an executed action that is not an    *)
(* escalation the system result and the second reply                       *)
TurnosAgregados(pedido) ==
    IF pedido.tipo \in {"ninguna", "derivar_humano"} THEN 2 ELSE 4

(* C21: every stored conversation has at most 20 turns; a text turn that   *)
(* stores the conversation keeps the turns it read followed by the turns   *)
(* of its own message, and when that is more than 20 turns it retains the  *)
(* 20 most recent ones in their order, the oldest being dropped.           *)
C21_HistorialAcotado ==
    /\ [](\A u \in Usuarios : Len(sesiones[u].historial) <= 20)
    /\ [][\A h \in Hilos :
            /\ PasoTexto(h)
            /\ ~hilos[h].sesion.esperando_comprobante
            /\ ~sesiones'[hilos[h].wa_id].esperando_comprobante
            => LET antes == hilos[h].sesion.historial
                   ahi == sesiones'[hilos[h].wa_id].historial
                   mas == TurnosAgregados(ultimo'.pedido)
                   quita == Len(antes) + mas - Len(ahi)
               IN  /\ Len(ahi) = IF Len(antes) + mas <= 20 THEN Len(antes) + mas ELSE 20
                   /\ \A i \in 1..Len(ahi) :
                        IF i + quita <= Len(antes)
                        THEN ahi[i] = antes[i + quita]
                        ELSE ahi[i].content[2] = hilos[h].mensaje
                   /\ ahi[Len(ahi) - mas + 1].role = "user"
                   /\ ahi[Len(ahi)].role = "assistant"]_vars

(* a text turn read a conversation of 20 turns, added four and stored the  *)
(* last 20: the four oldest turns are gone                                 *)
C21_Testigo ==
    /\ ultimo.turno = "texto"
    /\ Len(ultimo.sesion.historial) = 20
    /\ Len(sesiones[ultimo.wa_id].historial) = 20
    /\ sesiones[ultimo.wa_id].historial[1] = ultimo.sesion.historial[5]
    /\ sesiones[ultimo.wa_id].historial[1] # ultimo.sesion.historial[1]

(* C22: while N >= 1 drafts are pending, a proof valid for one deposit     *)
(* (accepted on the retry for one deposit, or the only draft left) with an *)
(* unused reference, the slot of the first pending draft being free and    *)
(* the insert succeeding, confirms exactly the first pending draft and     *)
(* leaves the others pending in their order; the session keeps awaiting    *)
(* while a draft is left and is idle when none is.  So N such proofs in a  *)
(* row confirm the first k drafts after the k-th and all N, with the       *)
(* session idle, after the N-th.                                           *)
C22_VariosParciales ==
    [][\A h \in Hilos :
         /\ PasoConfirmar(h)
         /\ hilos[h].parcial \/ Len(Pendientes(h)) = 1
         /\ hilos[h].resultado.numero_operacion # NULL
         /\ ~OperacionEnUso(reservas, hilos[h].resultado.numero_operacion)
         /\ ~TurnoOcupado(reservas, Pendientes(h)[1])
         => LET u == hilos[h].wa_id
            IN  /\ UnaFilaMas(Pendientes(h)[1], hilos[h].resultado.numero_operacion)
                /\ sesiones'[u].reserva_pendiente = Tail(Pendientes(h))
                /\ sesiones'[u].esperando_comprobante <=> Len(Pendientes(h)) > 1]_vars

(* one text prepared a batch of three drafts and three images settled it:  *)
(* the last three rows are the drafts in the order of the batch, each with *)
(* its own reference, and the session is idle                              *)
C22_Testigo ==
    /\ ultimo.turno = "foto"
    /\ textos = 1 /\ fotos = MaxLoteLargo
    /\ Len(ultimo.sesion.reserva_pendiente) = 1
    /\ ~sesiones[ultimo.wa_id].esperando_comprobante
    /\ Len(reservas) >= MaxLoteLargo
    /\ LET n == Len(reservas)
       IN  /\ MismoTurno(reservas[n], ultimo.sesion.reserva_pendiente[1])
           /\ \A i \in (n - MaxLoteLargo + 1)..n :
                /\ reservas[i].estado = "confirmada"
                /\ reservas[i].numero_operacion # NULL
                /\ reservas[i].telefono_cliente # ReservaPrevia.telefono_cliente
           /\ \A i, j \in (n - MaxLoteLargo + 1)..n :
                i # j => /\ reservas[i].numero_operacion # reservas[j].numero_operacion
                         /\ ~MismoTurno(reservas[i], reservas[j])

(* row rid was cancelled when the k-th id of the list was processed: it    *)
(* was before the turn, or an earlier position of the list cancelled it    *)
CanceladaAntes(ids, det, k) ==
    \/ reservas[ids[k]].estado = "cancelada"
    \/ \E j \in 1..(k - 1) : ids[j] = ids[k] /\ det[j] = "cancelada"

(* C23: cancelar_multiples_reservas reports one outcome per id, in the     *)
(* order of the list: "no existe" for an id without a row, "ya estaba      *)
(* cancelada" only for a row cancelled by then, "cancelada" only for a     *)
(* live row, which it cancels, else "error al cancelar"; after an id that  *)
(* does not exist, is already cancelled or fails, the later ids are still  *)
(* processed, and a live row whose look-up and update succeed is           *)
(* cancelled.  No other row changes.                                       *)
C23_CancelarVarias ==
    [][\A h \in Hilos :
         /\ PasoTexto(h)
         /\ ~hilos[h].sesion.esperando_comprobante
         /\ ultimo'.pedido.tipo = "cancelar_multiples_reservas"
         /\ ultimo'.pedido.reserva_ids # << >>
         => LET ids == ultimo'.pedido.reserva_ids
                det == ultimo'.accion.det
            IN  /\ Len(det) = Len(ids)
                /\ Len(reservas') = Len(reservas)
                /\ \A k \in 1..Len(ids) :
                     /\ det[k] \in {"no existe", "ya estaba cancelada", "cancelada",
                                    "error al cancelar"}
                     /\ ids[k] \notin 1..Len(reservas) => det[k] = "no existe"
                     /\ det[k] = "ya estaba cancelada"
                        => ids[k] \in 1..Len(reservas) /\ CanceladaAntes(ids, det, k)
                     /\ det[k] \in {"cancelada", "error al cancelar"}
                        => ids[k] \in 1..Len(reservas) /\ ~CanceladaAntes(ids, det, k)
                     /\ det[k] = "cancelada" => reservas'[ids[k]].estado = "cancelada"
                     /\ ~conFallas /\ ids[k] \in 1..Len(reservas)
                        => det[k] \in {"ya estaba cancelada", "cancelada"}
                /\ \A i \in 1..Len(reservas) :
                     \/ reservas'[i] = reservas[i]
                     \/ /\ reservas'[i] = [reservas[i] EXCEPT !.estado = "cancelada"]
                        /\ \E k \in 1..Len(ids) : ids[k] = i /\ det[k] = "cancelada"]_vars

(* the cancellation of the first id failed and the second id, another row, *)
(* was cancelled                                                           *)
C23_Testigo ==
    /\ ultimo.turno = "texto"
    /\ ultimo.pedido.tipo = "cancelar_multiples_reservas"
    /\ ultimo.accion.det = <<"error al cancelar", "cancelada">>
    /\ ultimo.pedido.reserva_ids[1] # ultimo.pedido.reserva_ids[2]
    /\ reservas[ultimo.pedido.reserva_ids[1]].estado # "cancelada"
    /\ reservas[ultimo.pedido.reserva_ids[2]].estado = "cancelada"

(* the step of handler h takes the full-settlement path *)
PagoCompleto(h) ==
    \/ monto_este_comprobante(hilos[h].parcial) >= Len(Pendientes(h)) * SENA_MONTO
    \/ Len(Pendientes(h)) = 1

(* C24: when, in the full-settlement path, the store answers the insert of *)
(* a pending draft with the duplicate signal, no reservation is created,   *)
(* the reuse-style message is sent and the session is not written: it      *)
(* still awaits the proof with the same pending drafts.                    *)
C24_DuplicadoAlConfirmar ==
    [][\A h \in Hilos :
         /\ PasoConfirmar(h)
         /\ PagoCompleto(h)
         /\ \E k \in 1..Len(ultimo'.rets) : ultimo'.rets[k].ret = "DUPLICADO"
         => LET u == hilos[h].wa_id
            IN  /\ reservas' = reservas
                /\ ultimo'.out = Mensaje("duplicado", 0, 0)
                /\ sesiones' = sesiones
                /\ sesiones'[u].esperando_comprobante
                /\ sesiones'[u].reserva_pendiente = Pendientes(h)]_vars

(* two users awaited the proof for one slot; the second to pay got the     *)
(* duplicate signal and still awaits with its draft                        *)
C24_Testigo ==
    /\ ultimo.turno = "foto"
    /\ ultimo.out.tag = "duplicado"
    /\ ultimo.rets = <<[ret |-> "DUPLICADO", id |-> 0]>>
    /\ TurnoOcupado(reservas, ultimo.sesion.reserva_pendiente[1])
    /\ ~OperacionEnUso(reservas, ultimo.resultado.numero_operacion)
    /\ sesiones[ultimo.wa_id].esperando_comprobante
    /\ sesiones[ultimo.wa_id].reserva_pendiente = ultimo.sesion.reserva_pendiente

(* C25: a prepare action for a draft whose court a reservation that is not *)
(* cancelled holds at that date and time never moves the session to        *)
(* awaiting the proof, also when the query of the reservations fails: the  *)
(* session stays idle without pending drafts.                              *)
C25_ConsultaFallida ==
    [][\A h \in Hilos :
         /\ PasoTexto(h)
         /\ ~hilos[h].sesion.esperando_comprobante
         /\ \E k \in 1..Len(BorradoresDe(ultimo'.pedido)) :
                TurnoOcupado(reservas, BorradoresDe(ultimo'.pedido)[k])
         => /\ ~sesiones'[hilos[h].wa_id].esperando_comprobante
            /\ sesiones'[hilos[h].wa_id].reserva_pendiente = << >>]_vars

(* C26: in every stored session esperando_desde is set only while          *)
(* esperando_comprobante holds: after a keyword cancellation, a full       *)
(* settlement or an expiry it is unset.                                    *)
C26_EsperandoDesde ==
    \A u \in Usuarios :
        sesiones[u].esperando_desde # SinFecha => sesiones[u].esperando_comprobante

(* the outcomes after which the text turn answers without a second call *)
SinSegundaLlamada == {"RESERVA_LISTA", "MULTIPLES_RESERVAS_LISTAS", "DERIVAR_HUMANO"}

(* C27: a text turn executes the action of the first reply and no other:   *)
(* the table after it is the one that action leaves.  When the outcome is  *)
(* neither "prepared" nor the escalation, the outcome is appended as a     *)
(* system-result turn, the extractor is called exactly once more and its   *)
(* reply is what is sent and stored last; the action of that second reply  *)
(* is not executed: it changes no reservation and prepares nothing.        *)
C27_UnaAccionPorTexto ==
    [][\A h \in Hilos :
         /\ PasoTexto(h)
         /\ ~hilos[h].sesion.esperando_comprobante
         => LET u == hilos[h].wa_id
                ahi == sesiones'[u].historial
            IN  /\ reservas' = ejecutar_accion(ultimo'.pedido, reservas, ahora, {}, {}).rs
                /\ ultimo'.llamadas \in {1, 2}
                /\ ultimo'.pedido # NoAccion
                   /\ ultimo'.accion.resultado \notin SinSegundaLlamada
                   => /\ ultimo'.llamadas = 2
                      /\ ultimo'.out = Mensaje("respuesta_resultado", 0, 0)
                      /\ Len(ahi) >= 4
                      /\ ahi[Len(ahi) - 3] = DelUsuario(hilos[h].mensaje)
                      /\ ahi[Len(ahi) - 1] = ResultadoSistema(hilos[h].mensaje)
                      /\ ahi[Len(ahi)] = TextoFinal(hilos[h].mensaje)
                      /\ ~sesiones'[u].esperando_comprobante
                      /\ sesiones'[u].reserva_pendiente = << >>
                /\ ultimo'.pedido = NoAccion
                   \/ ultimo'.accion.resultado \in SinSegundaLlamada
                   => ultimo'.llamadas = 1]_vars

(* the second reply to a consultation carried a cancellation of            *)
(* reservation 1, which is still confirmed                                 *)
C27_Testigo ==
    /\ ultimo.turno = "texto"
    /\ ultimo.pedido.tipo = "consultar_disponibilidad"
    /\ ultimo.llamadas = 2
    /\ ultimo.pedido2.tipo = "cancelar_reserva"
    /\ ultimo.pedido2.reserva_ids = <<1>>
    /\ reservas # << >>
    /\ reservas[1].estado = "confirmada"

SoloLectura ==
    {"consultar_disponibilidad", "consultar_reservas", "ver_grilla", "derivar_humano"}

(* C28: a text turn whose action is consultar_disponibilidad,              *)
(* consultar_reservas, ver_grilla or derivar_humano creates, cancels and   *)
(* modifies no reservation, also when its query fails, and leaves          *)
(* esperando_comprobante and the pending drafts of the stored session as   *)
(* they were: the session is idle after it.                                *)
C28_SoloLectura ==
    [][\A h \in Hilos :
         /\ PasoTexto(h)
         /\ ~hilos[h].sesion.esperando_comprobante
         /\ ultimo'.pedido.tipo \in SoloLectura
         => LET u == hilos[h].wa_id
            IN  /\ reservas' = reservas
                /\ sesiones'[u].esperando_comprobante = sesiones[u].esperando_comprobante
                /\ sesiones'[u].reserva_pendiente = sesiones[u].reserva_pendiente
                /\ sesiones'[u].esperando_desde = sesiones[u].esperando_desde
                /\ ~sesiones'[u].esperando_comprobante
                /\ sesiones'[u].reserva_pendiente = << >>]_vars

(* a consultation was answered while the table held a reservation and the  *)
(* other user awaited a proof                                              *)
C28_Testigo ==
    /\ ultimo.turno = "texto"
    /\ ultimo.pedido.tipo \in SoloLectura
    /\ ultimo.out.tag \in {"respuesta_resultado", "derivacion"}
    /\ Activas(reservas) # {}
    /\ ~sesiones[ultimo.wa_id].esperando_comprobante
    /\ \E v \in Usuarios : v # ultimo.wa_id /\ sesiones[v].esperando_comprobante

(* the step is a text turn of user u that prepared one or several drafts *)
PreparaConExito(u) ==
    /\ ultimo'.turno = "texto"
    /\ ultimo'.wa_id = u
    /\ ultimo'.accion.resultado \in {"RESERVA_LISTA", "MULTIPLES_RESERVAS_LISTAS"}

(* C29: once a keyword cancellation has stored the session of a user as    *)
(* idle without pending drafts, the stored session stays idle until a      *)
(* prepare action of that user succeeds, also when an image turn of the    *)
(* user that read the session before the cancellation ends after it.       *)
C29_SinActualizacionPerdida ==
    [][\A u \in Usuarios :
         /\ ultimo.turno = "texto"
         /\ ultimo.wa_id = u
         /\ ultimo.out.tag = "proceso_cancelado"
         /\ ~sesiones[u].esperando_comprobante
         /\ sesiones[u].reserva_pendiente = << >>
         => \/ PreparaConExito(u)
            \/ /\ ~sesiones'[u].esperando_comprobante
               /\ sesiones'[u].reserva_pendiente = << >>]_vars

(* the live rows of table rs for the slot of draft r *)
FilasDelTurno(rs, r) == {i \in Activas(rs) : MismoTurno(rs[i], r)}

(* C30: a pending draft holds no slot.  When a user with one pending draft *)
(* submits a valid proof with an unused reference (the stored session      *)
(* being the one the turn read), then: if no live reservation holds the    *)
(* slot, the turn creates the one reservation of the slot and the session  *)
(* becomes idle; if another user's proof has taken the slot meanwhile, the *)
(* turn creates no reservation and the session still awaits the proof with *)
(* the draft pending.  Either way the slot has exactly one live            *)
(* reservation afterwards and the sessions of the other users, awaiting    *)
(* for the same slot or not, are as they were.                             *)
C30_BorradorNoReserva ==
    [][\A h \in Hilos :
         /\ PasoConfirmar(h)
         /\ Len(Pendientes(h)) = 1
         /\ hilos[h].resultado.numero_operacion # NULL
         /\ ~OperacionEnUso(reservas, hilos[h].resultado.numero_operacion)
         /\ sesiones[hilos[h].wa_id] = hilos[h].sesion
         => LET u == hilos[h].wa_id
                r == Pendientes(h)[1]
            IN  /\ Cardinality(FilasDelTurno(reservas', r)) = 1
                /\ \A v \in Usuarios \ {u} : sesiones'[v] = sesiones[v]
                /\ IF FilasDelTurno(reservas, r) # {}
                   THEN /\ reservas' = reservas
                        /\ sesiones'[u].esperando_comprobante
                        /\ sesiones'[u].reserva_pendiente = <<r>>
                   ELSE /\ Len(reservas') = Len(reservas) + 1
                        /\ ~sesiones'[u].esperando_comprobante]_vars

(* both users awaited the proof for one slot; one paid and holds the       *)
(* reservation, the other paid with another reference, got nothing and     *)
(* still awaits with the draft                                             *)
C30_Testigo ==
    /\ ultimo.turno = "foto"
    /\ ultimo.rets = <<[ret |-> "DUPLICADO", id |-> 0]>>
    /\ textos = 2
    /\ LET u == ultimo.wa_id
           r == ultimo.sesion.reserva_pendiente[1]
       IN  /\ sesiones[u].esperando_comprobante
           /\ sesiones[u].reserva_pendiente = <<r>>
           /\ ultimo.resultado.numero_operacion # NULL
           /\ ~OperacionEnUso(reservas, ultimo.resultado.numero_operacion)
           /\ \E i \in FilasDelTurno(reservas, r) :
                /\ reservas[i].telefono_cliente # ReservaPrevia.telefono_cliente
                /\ reservas[i].numero_operacion # NULL
           /\ \E v \in Usuarios \ {u} :
                /\ ~sesiones[v].esperando_comprobante
                /\ sesiones[v].telefono_confirmado = r.telefono

(* the drafts of list l refer to pairwise distinct slots *)
TurnosDistintos(l) ==
    \A i, j \in 1..Len(l) : i # j => ~MismoTurno(l[i], l[j])

(* C31: in every reachable state the pending drafts of every stored        *)
(* session refer to pairwise distinct (fecha, hora, cancha_id) slots.      *)
C31_PendientesDistintos ==
    \A u \in Usuarios : TurnosDistintos(sesiones[u].reserva_pendiente)

(* The program knows a proof of payment by what the verifier reads out of  *)
(* it: the operation reference, or none.  The model has one transfer per   *)
(* reference of Operaciones and one transfer whose proof shows no          *)
(* reference; a reservation row was confirmed by proof p when it carries   *)
(* the reference p (NULL: none was stored, crear_reserva lines 113-114).   *)
ConfirmadaCon(rs, p) == {i \in Activas(rs) : rs[i].numero_operacion = p}

(* C32: when an image turn reaches its inserts with the proof that has     *)
(* confirmed a reservation that is not cancelled, it creates no            *)
(* reservation: whether the reuse lookup answered, failed, was overtaken   *)
(* by another turn, or was skipped because the valid verdict carries no    *)
(* operation reference.                                                    *)
C32_ComprobanteUnaVez ==
    [][\A h \in Hilos :
         /\ PasoConfirmar(h)
         /\ ConfirmadaCon(reservas, hilos[h].resultado.numero_operacion) # {}
         => reservas' = reservas]_vars

====
